---- MODULE Spec2Model ----
(***************************************************************************)
(* A model of index.js (Apple Turnover): the lane decoder, the maneuver    *)
(* extractor, the linking pass, the flatten stage and the output loop.     *)
(*                                                                         *)
(* Representation.                                                         *)
(*  - A tag value (a JavaScript string) is a sequence of tokens: a word    *)
(*    ("left", "yes", "2", "primary") or one of the separators "|" and     *)
(*    ";".  The empty sequence stands for a missing tag (undefined) and    *)
(*    for the empty string; both are falsy in every test the code makes.   *)
(*  - A way is [id, nodes, tags, line]; tags maps the keys present on the  *)
(*    way to their values.  The geometry (way.line, built by turf from the *)
(*    node coordinates) is abstracted to [len, head, tail, first, last]:   *)
(*    the length in meters, the forward bearings, in whole degrees, of the *)
(*    way within maxLengthForTurnAngle meters of its first and of its last *)
(*    node (the way is straight there), and the nodes at its two ends.     *)
(*  - A maneuver object is an entry of the sequence maneuvers; a reference *)
(*    to a maneuver (next, the filtered array) is its index.               *)
(***************************************************************************)
EXTENDS Integers, Sequences, FiniteSets, TLC

(***************************************************************************)
(* JavaScript values                                                       *)
(***************************************************************************)

\* undefined / "" as a tag value.
Undefined == <<>>

\* NaN as a number (outside every range the model computes with).
NaN == -1000000

\* The truthiness of a number: neither 0 nor NaN.
Truthy(n) == n # 0 /\ n # NaN

\* parseInt(s) for the numeric tag values the model draws from; every other
\* string (and undefined) gives NaN.  "2.5" parses to 2: parseInt stops at
\* the first character that is not a digit.
parseInt(s) ==
    IF s = Undefined THEN NaN
    ELSE CASE s = <<"0">> -> 0
           [] s = <<"1">> -> 1
           [] s = <<"2">> -> 2
           [] s = <<"3">> -> 3
           [] s = <<"4">> -> 4
           [] s = <<"5">> -> 5
           [] s = <<"6">> -> 6
           [] s = <<"2.5">> -> 2
           [] s = <<"-1">> -> -1
           [] s = <<"-2">> -> -2
           [] s = <<"-3">> -> -3
           [] OTHER -> NaN

\* Math.floor(n / 2); NaN stays NaN.
FloorHalf(n) == IF n = NaN THEN NaN ELSE n \div 2

\* a || b on strings.
OrElse(a, b) == IF a # Undefined THEN a ELSE b

\* way.tags[key]
TagOf(way, key) == IF key \in DOMAIN way.tags THEN way.tags[key] ELSE Undefined

\* String.prototype.split(sep): the pieces of s between the separators; a
\* string without separators (the empty string too) is a single piece.
RECURSIVE SplitFrom(_, _, _, _)
SplitFrom(s, sep, i, piece) ==
    IF i > Len(s) THEN <<piece>>
    ELSE IF s[i] = sep THEN <<piece>> \o SplitFrom(s, sep, i + 1, <<>>)
    ELSE SplitFrom(s, sep, i + 1, Append(piece, s[i]))

Split(s, sep) == SplitFrom(s, sep, 1, <<>>)

\* new Array(n).fill(s).join("|") for n >= 1.
RECURSIVE FillJoin(_, _)
FillJoin(s, n) == IF n <= 1 THEN s ELSE s \o <<"|">> \o FillJoin(s, n - 1)

(***************************************************************************)
(* Lane decoder                                                            *)
(***************************************************************************)

Direction(progression) == IF progression > 0 THEN "forward" ELSE "backward"

\* getLaneCount(way, progression)
getLaneCount(way, progression) ==
    LET direction == Direction(progression)
        directional == parseInt(TagOf(way, "lanes:" \o direction))
        total == parseInt(TagOf(way, "lanes"))
        oneway == TagOf(way, "oneway")
        laneCount ==
            IF ~Truthy(directional)
            THEN IF oneway # <<"yes">> /\ oneway # <<"-1">>
                 THEN FloorHalf(total)
                 ELSE total
            ELSE directional
    IN  IF Truthy(laneCount) THEN laneCount ELSE 1

\* PerLaneTags with the generic key tried before the directional one.
PerLaneTags_GenericFirst(tag, way, progression) ==
    OrElse(TagOf(way, tag \o ":lanes"),
           TagOf(way, tag \o ":lanes:" \o Direction(progression)))

\* The per-lane value found by getTagsForProgression (line 57).
PerLaneTags(tag, way, progression) ==
    OrElse(TagOf(way, tag \o ":lanes:" \o Direction(progression)),
           TagOf(way, tag \o ":lanes"))

\* The scalar value found by getTagsForProgression (line 62).
ScalarTags(tag, way, progression) ==
    OrElse(TagOf(way, tag \o ":" \o Direction(progression)),
           TagOf(way, tag))

\* new Array(laneCount) throws a RangeError for a negative length.
getTagsForProgressionThrows(tag, way, progression, laneCount) ==
    /\ PerLaneTags(tag, way, progression) = Undefined
    /\ ScalarTags(tag, way, progression) # Undefined
    /\ Truthy(laneCount)
    /\ laneCount < 0

\* getTagsForProgression(tag, way, progression, laneCount); a call without
\* laneCount passes 0 (undefined and 0 are both falsy at line 63).
getTagsForProgression(tag, way, progression, laneCount) ==
    LET perLane == PerLaneTags(tag, way, progression)
        scalar == ScalarTags(tag, way, progression)
    IN  IF perLane # Undefined THEN perLane
        ELSE IF scalar # Undefined /\ Truthy(laneCount)
             THEN FillJoin(scalar, laneCount)
             ELSE scalar

RECURSIVE Gcd(_, _)
Gcd(a, b) == IF b = 0 THEN a ELSE Gcd(b, a % b)

\* A fraction in lowest terms.
Fraction(n, d) == LET g == Gcd(n, d) IN <<n \div g, d \div g>>

\* normalizeSpeed(speed).  A speed is the exact fraction <<numerator,
\* denominator>> in lowest terms; every falsy result (undefined, 0, NaN) is
\* NoSpeed.  1609.344 / (60 * 60) = 1397 / 3125.
NoSpeed == <<0, 1>>

\* The whole numbers a speed tag may start with.
SpeedRange == 0..130

\* parseFloat(s): the whole number the string starts with; NaN for a
\* string that starts with no number.
parseFloat(s) ==
    IF s = Undefined THEN NaN
    ELSE IF \E n \in SpeedRange : Head(s) = ToString(n)
         THEN CHOOSE n \in SpeedRange : Head(s) = ToString(n)
         ELSE NaN

normalizeSpeed(speed) ==
    IF speed = Undefined THEN NoSpeed
    ELSE IF speed[Len(speed)] = " mph"
         THEN LET n == parseFloat(SubSeq(speed, 1, Len(speed) - 1))
              IN  IF Truthy(n) THEN Fraction(n * 1397, 3125) ELSE NoSpeed
         ELSE LET n == parseFloat(speed)
              IN  IF Truthy(n) THEN <<n * 1000, 1>> ELSE NoSpeed

(***************************************************************************)
(* Geometry (turf)                                                         *)
(***************************************************************************)

\* A bearing brought back into (-180, 180], as turf.bearing returns it.
NormalizeBearing(b) ==
    LET m == b % 360 IN IF m > 180 THEN m - 360 ELSE m

\* The bearing of the opposite direction of travel.
ReverseBearing(b) == NormalizeBearing(b + 180)

\* way.line travelled backward (maneuverCoords.reverse(), line 232).
ReverseLine(line) ==
    [len |-> line.len, head |-> ReverseBearing(line.tail),
     tail |-> ReverseBearing(line.head),
     first |-> line.last, last |-> line.first]

\* turf.length(line, {units: "meters"}) of a maneuver's line, which is the
\* concatenation of the lines of the ways it traverses; consecutive ways
\* share the coordinate of the node that joins them.
RECURSIVE turfLength(_)
turfLength(line) ==
    IF line = <<>> THEN 0 ELSE Head(line).len + turfLength(Tail(line))

(***************************************************************************)
(* Maneuver extractor                                                      *)
(***************************************************************************)

\* The switch of lines 136-150: [can change left, can change right], or
\* undefined (the empty tuple) for an unrecognized value, for which the
\* arrow function returns nothing.
ChangePair(tag) ==
    CASE tag = <<"yes">> -> <<"true", "true">>
      [] tag = <<"no">> -> <<"false", "false">>
      [] tag = <<"not_left">> -> <<"false", "true">>
      [] tag = <<"only_right">> -> <<"false", "true">>
      [] tag = <<"not_right">> -> <<"true", "false">>
      [] tag = <<"only_left">> -> <<"true", "false">>
      [] OTHER -> <<>>

\* changeTags.split("|").map(...), lines 135-151.
DecodeChange(changeTags) ==
    LET parts == Split(changeTags, "|")
    IN  [i \in 1..Len(parts) |-> ChangePair(parts[i])]

\* Lines 157-158: the outer edges of the road are set to undefined.
ResetEdges(changes) ==
    LET n == Len(changes)
        first == [changes EXCEPT ![1] = <<"undefined", changes[1][2]>>]
    IN  [first EXCEPT ![n] = <<first[n][1], "undefined">>]

\* Lines 157-158 throw a TypeError when the first or the last lane decoded
\* to undefined.
ResetEdgesThrows(changes) ==
    changes[1] = <<>> \/ changes[Len(changes)] = <<>>

\* turnTags.split("|").map(tag => tag.split(";")), line 126.
DecodeTurn(turnTags) ==
    LET parts == Split(turnTags, "|")
    IN  [i \in 1..Len(parts) |-> Split(parts[i], ";")]

\* lane.turn.includes(word)
Includes(turn, word) == \E i \in 1..Len(turn) : turn[i] = <<word>>

\* InBucket without the slight turns.
InBucket_NoSlightTurns(lane, bucket) ==
    CASE bucket = "none" -> Len(lane.turn) = 0 \/ lane.turn[1] = <<"none">>
      [] bucket = "reverse" -> Includes(lane.turn, "reverse")
      [] bucket = "left" -> Includes(lane.turn, "left")
      [] bucket = "through" -> Includes(lane.turn, "through")
      [] bucket = "right" -> Includes(lane.turn, "right")

\* Lines 174-180: the lanes of one bucket, in lane order.
InBucket(lane, bucket) ==
    CASE bucket = "none" -> Len(lane.turn) = 0 \/ lane.turn[1] = <<"none">>
      [] bucket = "reverse" -> Includes(lane.turn, "reverse")
      [] bucket = "left" ->
            Includes(lane.turn, "left") \/ Includes(lane.turn, "slight_left")
      [] bucket = "through" -> Includes(lane.turn, "through")
      [] bucket = "right" ->
            Includes(lane.turn, "right") \/ Includes(lane.turn, "slight_right")

Turns(lanes, bucket) == SelectSeq(lanes, LAMBDA lane : InBucket(lane, bucket))

\* !v for a component of a change pair.
NotJS(v) == v # "true"

\* turnIsProtected(turn), lines 191-197, for a non-empty bucket.
turnIsProtected(bucketLanes) ==
    /\ \E i \in 1..Len(bucketLanes) :
          bucketLanes[i].change # <<>> /\ NotJS(bucketLanes[i].change[1])
    /\ \E i \in 1..Len(bucketLanes) :
          bucketLanes[i].change # <<>> /\ NotJS(bucketLanes[i].change[2])

\* Protection without the exception for a bucket that spans the road.
Protection_NoRoadEdgeException(bucketLanes) ==
    IF Len(bucketLanes) = 0 THEN "undefined"
    ELSE IF bucketLanes[1].change = <<>> /\ bucketLanes[Len(bucketLanes)].change = <<>>
         THEN "undefined"
         ELSE IF turnIsProtected(bucketLanes) THEN "true" ELSE "false"

\* The callback of _.mapValues, lines 210-227, for reverse, left and right:
\* "true", "false" or "undefined".
Protection(bucketLanes) ==
    IF Len(bucketLanes) = 0 THEN "undefined"
    ELSE LET leftmostLane == bucketLanes[1]
             rightmostLane == bucketLanes[Len(bucketLanes)]
         IN  IF leftmostLane.change = <<>> /\ rightmostLane.change = <<>>
             THEN "undefined"
             ELSE IF /\ leftmostLane.change # <<>>
                     /\ leftmostLane.change[1] = "undefined"
                     /\ rightmostLane.change # <<>>
                     /\ rightmostLane.change[2] = "undefined"
                  THEN "undefined"
                  ELSE IF turnIsProtected(bucketLanes) THEN "true" ELSE "false"

\* The decoded change tags of getManeuvers, lines 129-165: "none" when the
\* way has no change tagging, "throw", "mismatch", or "ok" with the pairs.
ChangeDecoding(way, progression, laneCount, turnLanes) ==
    LET changeTags == getTagsForProgression("change", way, progression, laneCount)
    IN  IF changeTags = Undefined THEN [kind |-> "none", changes |-> <<>>]
        ELSE LET decoded == DecodeChange(changeTags)
             IN  IF ResetEdgesThrows(decoded)
                 THEN [kind |-> "throw", changes |-> <<>>]
                 ELSE IF Len(turnLanes) # Len(decoded)
                      THEN [kind |-> "mismatch", changes |-> <<>>]
                      ELSE [kind |-> "ok", changes |-> ResetEdges(decoded)]

\* _.zip(turnTags, changeTags).map(...), line 169.
ZipLanes(turnLanes, decoding) ==
    [i \in 1..Len(turnLanes) |->
        [turn |-> turnLanes[i],
         change |-> IF decoding.kind = "ok" THEN decoding.changes[i] ELSE <<>>]]

\* The three turn types that give a maneuver, in the order of line 243.
ManeuverTurns == <<"reverse", "left", "right">>

\* The maneuver object of lines 243-253, with the properties the later
\* stages add (next, isConnection, fromWays, progressions, protectionNode)
\* at their initial, absent values.
NewManeuver(way, progression, turn, bucketLanes) ==
    [fromWay |-> way.id,
     progression |-> progression,
     fromNode |-> IF progression > 0 THEN way.nodes[1] ELSE way.nodes[Len(way.nodes)],
     viaNode |-> IF progression > 0 THEN way.nodes[Len(way.nodes)] ELSE way.nodes[1],
     line |-> <<IF progression < 0 THEN ReverseLine(way.line) ELSE way.line>>,
     turn |-> turn,
     lanes |-> Len(bucketLanes),
     protected |-> Protection(bucketLanes),
     maxSpeed |-> normalizeSpeed(
                     OrElse(getTagsForProgression("maxspeed:advisory", way, progression, 0),
                            getTagsForProgression("maxspeed", way, progression, 0))),
     next |-> 0,
     isConnection |-> FALSE,
     fromWays |-> <<>>,
     progressions |-> <<>>,
     protectionNode |-> 0]

\* getManeuvers(way, progression) throws: new Array of a negative length
\* (lines 118 and 129) or a property set on an undefined lane (157-158).
getManeuversThrows(way, progression) ==
    LET laneCount == getLaneCount(way, progression)
    IN  \/ getTagsForProgressionThrows("turn", way, progression, laneCount)
        \/ /\ getTagsForProgression("turn", way, progression, laneCount) # Undefined
           /\ \/ getTagsForProgressionThrows("change", way, progression, laneCount)
              \/ ChangeDecoding(way, progression, laneCount,
                     DecodeTurn(getTagsForProgression("turn", way, progression, laneCount))
                 ).kind = "throw"

\* getManeuvers(way, progression), lines 115-254, when it returns.
getManeuvers(way, progression) ==
    LET laneCount == getLaneCount(way, progression)
        turnTags == getTagsForProgression("turn", way, progression, laneCount)
    IN  IF turnTags = Undefined THEN <<>>
        ELSE LET turnLanes == DecodeTurn(turnTags)
                 decoding == ChangeDecoding(way, progression, laneCount, turnLanes)
                 lanes == ZipLanes(turnLanes, decoding)
                 present == SelectSeq(ManeuverTurns,
                                LAMBDA turn : Len(Turns(lanes, turn)) > 0)
             IN  IF decoding.kind = "mismatch" THEN <<>>
                 ELSE [i \in 1..Len(present) |->
                          NewManeuver(way, progression, present[i],
                                      Turns(lanes, present[i]))]

(***************************************************************************)
(* Linking pass                                                            *)
(***************************************************************************)

maxLengthForTurnAngle == 36

Min(a, b) == IF a < b THEN a ELSE b

Max(a, b) == IF a > b THEN a ELSE b

Abs(a) == IF a < 0 THEN -a ELSE a

\* turf.bearing(turf.along(line, startOffset), turf.along(line, endOffset))
\* for two offsets that both lie within maxLengthForTurnAngle of the same
\* end of the line; two equal points have bearing 0.
BearingAlong(line, startOffset, endOffset) ==
    IF startOffset = endOffset THEN 0
    ELSE LET zone == Min(line.len, maxLengthForTurnAngle)
             forward == IF startOffset <= zone /\ endOffset <= zone
                        THEN line.head ELSE line.tail
         IN  IF startOffset < endOffset THEN forward ELSE ReverseBearing(forward)

\* highway.includes("_link")
IncludesLink(highway) ==
    highway \in {<<"motorway_link">>, <<"trunk_link">>, <<"primary_link">>,
                 <<"secondary_link">>, <<"tertiary_link">>}

\* ConnectedBySharedNode that passes over the maneuvers already marked as a
\* connection.
ConnectedBySharedNode_SkipConnections(ms, m) ==
    SelectSeq([j \in 1..Len(ms) |-> j],
              LAMBDA j : /\ ms[j].fromNode = ms[m].viaNode
                         /\ ms[j].fromWay # ms[m].fromWay
                         /\ ms[j].turn = ms[m].turn
                         /\ ~ms[j].isConnection)

\* Lines 397-404: the indices of the maneuvers connected to maneuver m, in
\* the order of the maneuvers array.
ConnectedBySharedNode(ms, m) ==
    SelectSeq([j \in 1..Len(ms) |-> j],
              LAMBDA j : /\ ms[j].fromNode = ms[m].viaNode
                         /\ ms[j].fromWay # ms[m].fromWay
                         /\ ms[j].turn = ms[m].turn)

\* NotConnected without the test on the end of a lane change restriction.
NotConnected_NoProtectionTest(byId, ms, m, c) ==
    LET way == byId[ms[m].fromWay]
        connectedWay == byId[ms[c].fromWay]
    IN  \/ /\ TagOf(way, "highway") # <<"service">>
           /\ TagOf(connectedWay, "highway") = <<"service">>
        \/ /\ ~IncludesLink(TagOf(way, "highway"))
           /\ IncludesLink(TagOf(connectedWay, "highway"))

\* The predicate of _.remove, lines 408-420.  Every way the model draws
\* carries a highway tag, so highway.includes is never called on undefined.
NotConnected(byId, ms, m, c) ==
    LET way == byId[ms[m].fromWay]
        connectedWay == byId[ms[c].fromWay]
    IN  \/ /\ TagOf(way, "highway") # <<"service">>
           /\ TagOf(connectedWay, "highway") = <<"service">>
        \/ /\ ~IncludesLink(TagOf(way, "highway"))
           /\ IncludesLink(TagOf(connectedWay, "highway"))
        \/ /\ ms[m].protected = "true"
           /\ ms[c].protected = "false"

\* Lines 424-440: the bearing at the end of maneuver m.
ManeuverBearing(byId, ms, m) ==
    LET way == byId[ms[m].fromWay]
        wayLength == way.line.len
        startOffset == IF ms[m].progression > 0 THEN 0
                       ELSE Min(wayLength, maxLengthForTurnAngle)
        endOffset == IF ms[m].progression > 0
                     THEN Min(wayLength, maxLengthForTurnAngle)
                     ELSE 0
    IN  BearingAlong(way.line, startOffset, endOffset)

\* Lines 445-466: the bearing at the beginning of the connected maneuver c.
ConnectedBearing(byId, ms, m, c) ==
    LET wayLength == byId[ms[m].fromWay].line.len
        connectedWay == byId[ms[c].fromWay]
        connectedWayLength == connectedWay.line.len
        reach == Min(Min(wayLength, connectedWayLength), maxLengthForTurnAngle)
        startOffset == IF ms[c].progression > 0 THEN 0 ELSE connectedWayLength
        endOffset == IF ms[c].progression > 0 THEN reach
                     ELSE connectedWayLength - reach
    IN  BearingAlong(connectedWay.line, startOffset, endOffset)

\* Lines 469-478.
BearingDelta(connectedBearing, bearing) ==
    LET bearingDelta == connectedBearing - bearing
    IN  IF bearingDelta > 180 THEN bearingDelta - 180
        ELSE IF bearingDelta < -180 THEN bearingDelta + 180
        ELSE bearingDelta

\* Line 483: the candidate is kept by the bearing filter.
WithinTurnAngle(byId, ms, m, c) ==
    Abs(BearingDelta(ConnectedBearing(byId, ms, m, c),
                     ManeuverBearing(byId, ms, m))) <= 30

\* The candidates left after lines 397-483.
FilteredCandidates(byId, ms, m) ==
    SelectSeq(ConnectedBySharedNode(ms, m),
              LAMBDA c : ~NotConnected(byId, ms, m, c)
                         /\ WithinTurnAngle(byId, ms, m, c))

\* Lines 488-496 without the test of line 492.
SameClassNarrowing_NoFallback(byId, ms, m, cands) ==
    IF Len(cands) > 1
    THEN SelectSeq(cands, LAMBDA c :
             TagOf(byId[ms[c].fromWay], "highway")
                 = TagOf(byId[ms[m].fromWay], "highway"))
    ELSE cands

\* Lines 488-496.
SameClassNarrowing(byId, ms, m, cands) ==
    IF Len(cands) > 1
    THEN LET sameClassManeuvers ==
                 SelectSeq(cands, LAMBDA c :
                     TagOf(byId[ms[c].fromWay], "highway")
                         = TagOf(byId[ms[m].fromWay], "highway"))
         IN  IF Len(sameClassManeuvers) > 0 THEN sameClassManeuvers ELSE cands
    ELSE cands

\* Lines 499-511.
SameNameNarrowing(byId, ms, m, cands) ==
    IF Len(cands) > 1
    THEN LET name == getTagsForProgression("name", byId[ms[m].fromWay],
                                           ms[m].progression, ms[m].lanes)
             sameNamedManeuvers ==
                 SelectSeq(cands, LAMBDA c :
                     getTagsForProgression("name", byId[ms[c].fromWay],
                                           ms[c].progression, ms[c].lanes) = name)
         IN  IF Len(sameNamedManeuvers) > 0 THEN sameNamedManeuvers ELSE cands
    ELSE cands

\* connectedManeuvers as it stands at line 514.
RemainingCandidates(byId, ms, m) ==
    SameNameNarrowing(byId, ms, m,
        SameClassNarrowing(byId, ms, m, FilteredCandidates(byId, ms, m)))

\* Lines 519-522: the maneuver that becomes maneuver.next, 0 for none.
\* console.assert at line 514 prints and lets the callback go on.
ChosenNext(cands) == IF Len(cands) > 0 THEN cands[1] ELSE 0

\* One call of the forEach callback of lines 395-523 on maneuver m.
LinkOne(byId, ms, m) ==
    LET chosen == ChosenNext(RemainingCandidates(byId, ms, m))
    IN  IF chosen = 0 THEN ms
        ELSE [[ms EXCEPT ![m].next = chosen] EXCEPT ![chosen].isConnection = TRUE]

(***************************************************************************)
(* Flattener                                                               *)
(***************************************************************************)

\* Arithmetic on fractions in lowest terms, with the common factors taken
\* out before multiplying: length * speed, a + b, and a / length.
TimesLength(length, speed) ==
    LET g == Gcd(length, speed[2])
    IN  <<(length \div g) * speed[1], speed[2] \div g>>

PlusFraction(a, b) ==
    LET g == Gcd(a[2], b[2])
    IN  Fraction(a[1] * (b[2] \div g) + b[1] * (a[2] \div g), (a[2] \div g) * b[2])

OverLength(a, length) ==
    LET g == Gcd(a[1], length)
    IN  <<a[1] \div g, a[2] * (length \div g)>>

\* BlendSpeed that takes the plain average of the two speeds.
BlendSpeed_Unweighted(length, maxSpeed, nextLength, nextMaxSpeed) ==
    IF maxSpeed[1] # 0 /\ nextMaxSpeed[1] # 0
    THEN OverLength(PlusFraction(maxSpeed, nextMaxSpeed), 2)
    ELSE IF maxSpeed[1] # 0 THEN maxSpeed ELSE nextMaxSpeed

\* Lines 320-324: the average of two speeds weighted by distance, or the
\* one that is defined.
BlendSpeed(length, maxSpeed, nextLength, nextMaxSpeed) ==
    IF maxSpeed[1] # 0 /\ nextMaxSpeed[1] # 0
    THEN OverLength(PlusFraction(TimesLength(length, maxSpeed),
                                 TimesLength(nextLength, nextMaxSpeed)),
                    length + nextLength)
    ELSE IF maxSpeed[1] # 0 THEN maxSpeed ELSE nextMaxSpeed

\* MergeNext that takes the start of any protected successor for the node
\* where the protection begins, the maneuver itself protected or not.
MergeNext_AnyProtectedSuccessor(ms, i) ==
    LET maneuver == ms[i]
        next == ms[maneuver.next]
    IN  [ms EXCEPT ![i] =
            [maneuver EXCEPT
                !.fromWays = maneuver.fromWays \o next.fromWays,
                !.progressions = maneuver.progressions \o next.progressions,
                !.line = maneuver.line \o next.line,
                !.viaNode = next.viaNode,
                !.lanes = Max(maneuver.lanes, next.lanes),
                !.protectionNode =
                    IF next.protected = "true"
                    THEN next.fromNode
                    ELSE next.protectionNode,
                !.maxSpeed = BlendSpeed(turfLength(maneuver.line), maneuver.maxSpeed,
                                        turfLength(next.line), next.maxSpeed),
                !.next = 0]]

\* MergeNext with the successor's ways put before the maneuver's own.
MergeNext_SuccessorFirst(ms, i) ==
    LET maneuver == ms[i]
        next == ms[maneuver.next]
    IN  [ms EXCEPT ![i] =
            [maneuver EXCEPT
                !.fromWays = next.fromWays \o maneuver.fromWays,
                !.progressions = next.progressions \o maneuver.progressions,
                !.line = next.line \o maneuver.line,
                !.viaNode = next.viaNode,
                !.lanes = Max(maneuver.lanes, next.lanes),
                !.protectionNode =
                    IF maneuver.protected # "true" /\ next.protected = "true"
                    THEN next.fromNode
                    ELSE next.protectionNode,
                !.next = 0]]

\* MergeNext that leaves the via node of the maneuver as it was.
MergeNext_KeepViaNode(ms, i) ==
    LET maneuver == ms[i]
        next == ms[maneuver.next]
    IN  [ms EXCEPT ![i] =
            [maneuver EXCEPT
                !.fromWays = maneuver.fromWays \o next.fromWays,
                !.progressions = maneuver.progressions \o next.progressions,
                !.line = maneuver.line \o next.line,
                !.lanes = Max(maneuver.lanes, next.lanes),
                !.protectionNode =
                    IF maneuver.protected # "true" /\ next.protected = "true"
                    THEN next.fromNode
                    ELSE next.protectionNode,
                !.next = 0]]

\* Lines 276-326: maneuver i of ms takes in its already flattened successor.
MergeNext(ms, i) ==
    LET maneuver == ms[i]
        next == ms[maneuver.next]
    IN  [ms EXCEPT ![i] =
            [maneuver EXCEPT
                !.fromWays = maneuver.fromWays \o next.fromWays,
                !.progressions = maneuver.progressions \o next.progressions,
                !.line = maneuver.line \o next.line,
                !.viaNode = next.viaNode,
                !.lanes = Max(maneuver.lanes, next.lanes),
                !.protectionNode =
                    IF maneuver.protected # "true" /\ next.protected = "true"
                    THEN next.fromNode
                    ELSE next.protectionNode,
                !.maxSpeed = BlendSpeed(turfLength(maneuver.line), maneuver.maxSpeed,
                                        turfLength(next.line), next.maxSpeed),
                !.next = 0]]

\* The warnings of lines 274-290 for maneuver i and its flattened successor.
MergeWarnings(ms, i) ==
    LET maneuver == ms[i]
        next == ms[maneuver.next]
    IN  (IF ~next.isConnection
         THEN <<[kind |-> "lacksIsConnection", at |-> i]>> ELSE <<>>)
        \o (IF maneuver.protected = "true" /\ next.protected = "false"
            THEN <<[kind |-> "protectionDrop", at |-> i]>> ELSE <<>>)
        \o (IF maneuver.lanes > next.lanes
            THEN <<[kind |-> "laneDrop", at |-> i]>> ELSE <<>>)

\* flattenManeuver(maneuver), lines 265-327, on maneuver i at call depth
\* depth.  A call chain deeper than the number of maneuvers has come back
\* to a maneuver whose next is still set: the recursion never returns and
\* the call stack overflows.
RECURSIVE flattenManeuver(_, _, _, _)
flattenManeuver(ms, warned, i, depth) ==
    IF ms[i].next = 0 THEN [ms |-> ms, warned |-> warned, overflow |-> FALSE]
    ELSE IF depth > Len(ms) THEN [ms |-> ms, warned |-> warned, overflow |-> TRUE]
    ELSE LET inner == flattenManeuver(ms, warned, ms[i].next, depth + 1)
         IN  IF inner.overflow THEN inner
             ELSE [ms |-> MergeNext(inner.ms, i),
                   warned |-> inner.warned \o MergeWarnings(inner.ms, i),
                   overflow |-> FALSE]

\* Lines 528-534.
PrepareOne(maneuver) ==
    [maneuver EXCEPT !.fromWays = <<maneuver.fromWay>>,
                     !.progressions = <<maneuver.progression>>,
                     !.fromWay = 0,
                     !.progression = 0]

\* NotConnections without the filter: every maneuver is kept.
NotConnections_KeepAll(ms) == [j \in 1..Len(ms) |-> j]

\* NotConnections with the order of the array turned round.
NotConnections_Reversed(ms) ==
    LET kept == SelectSeq([j \in 1..Len(ms) |-> j], LAMBDA j : ~ms[j].isConnection)
    IN  [k \in 1..Len(kept) |-> kept[Len(kept) + 1 - k]]

\* Line 538: the maneuvers that are not connections, in array order.
NotConnections(ms) ==
    SelectSeq([j \in 1..Len(ms) |-> j], LAMBDA j : ~ms[j].isConnection)

(***************************************************************************)
(* Output                                                                  *)
(***************************************************************************)

\* turf.lineSlice(protectionNode, viaNode, line) measured by turf.length,
\* lines 555-560: the part of the line from the first place where it meets
\* the protection node.
RECURSIVE SliceLengthFrom(_, _)
SliceLengthFrom(line, node) ==
    IF line = <<>> THEN 0
    ELSE IF Head(line).first = node THEN turfLength(line)
    ELSE SliceLengthFrom(Tail(line), node)

\* The fields of the entry of line 564; an empty column is 0 (for the
\* protected length) or NoSpeed.
Entry(byId, maneuver) ==
    [fromNode |-> maneuver.fromNode,
     viaNode |-> maneuver.viaNode,
     turn |-> maneuver.turn,
     highway |-> TagOf(byId[maneuver.fromWays[Len(maneuver.fromWays)]], "highway"),
     lanes |-> maneuver.lanes,
     length |-> turfLength(maneuver.line),
     protectedLength |-> IF maneuver.protectionNode # 0
                         THEN SliceLengthFrom(maneuver.line, maneuver.protectionNode)
                         ELSE 0,
     maxSpeed |-> maneuver.maxSpeed]

(***************************************************************************)
(* The batch: readFile callback, lines 336-574                             *)
(***************************************************************************)

VARIABLES
    ways,        \* the way elements of the input, in input order
    pc,          \* the stage the callback is in
    cursor,      \* the index the running forEach has reached
    maneuvers,   \* every maneuver object created, in creation order
    roots,       \* the maneuvers array after line 538, as indices
    output,      \* the entries written so far
    warned,      \* the console.assert / console.warn diagnostics so far
    probe        \* a single call of one function and its result

vars == <<ways, pc, cursor, maneuvers, roots, output, warned, probe>>

\* waysById, line 346.
waysById(ws) ==
    [id \in {ws[i].id : i \in 1..Len(ws)} |->
        ws[CHOOSE i \in 1..Len(ws) : ws[i].id = id]]

\* Lines 375-377: the way is taken for a turn channel and skipped.
IsTurnChannel(way) ==
    /\ TagOf(way, "turn") # Undefined \/ TagOf(way, "lanes") = <<"1">>
    /\ TagOf(way, "oneway") = <<"yes">> \/ TagOf(way, "oneway") = <<"-1">>
    /\ IncludesLink(TagOf(way, "highway"))

\* way.tags.highway.includes at line 377 throws a TypeError on a way
\* without a highway tag, once the two tests before it have passed.
TurnChannelTestThrows(way) ==
    /\ TagOf(way, "turn") # Undefined \/ TagOf(way, "lanes") = <<"1">>
    /\ TagOf(way, "oneway") = <<"yes">> \/ TagOf(way, "oneway") = <<"-1">>
    /\ TagOf(way, "highway") = Undefined

\* Lines 383 and 387: the directions in which maneuvers are extracted.
ExtractsForward(way) ==
    TagOf(way, "oneway") = Undefined \/ TagOf(way, "oneway") = <<"yes">>

ExtractsBackward(way) ==
    TagOf(way, "oneway") = Undefined \/ TagOf(way, "oneway") = <<"-1">>

\* The callback of ways.forEach, lines 354-392, throws.
WayCallbackThrows(way) ==
    \/ TurnChannelTestThrows(way)
    \/ /\ ~IsTurnChannel(way)
       /\ \/ ExtractsForward(way) /\ getManeuversThrows(way, 1)
          \/ ExtractsBackward(way) /\ getManeuversThrows(way, -1)

\* wayManeuvers, lines 382-390.
WayManeuvers(way) ==
    IF IsTurnChannel(way) THEN <<>>
    ELSE (IF ExtractsForward(way) THEN getManeuvers(way, 1) ELSE <<>>)
         \o (IF ExtractsBackward(way) THEN getManeuvers(way, -1) ELSE <<>>)

\* ways.forEach, lines 354-392: one way per step.
ExtractWay ==
    /\ pc = "extract"
    /\ cursor <= Len(ways)
    /\ IF WayCallbackThrows(ways[cursor])
       THEN /\ pc' = "crashed"
            /\ UNCHANGED <<cursor, maneuvers>>
       ELSE /\ maneuvers' = maneuvers \o WayManeuvers(ways[cursor])
            /\ IF cursor < Len(ways)
               THEN /\ cursor' = cursor + 1
                    /\ pc' = "extract"
               ELSE /\ cursor' = 1
                    /\ pc' = IF Len(maneuvers') > 0 THEN "link" ELSE "prepare"
    /\ UNCHANGED <<ways, roots, output, warned, probe>>

\* maneuvers.forEach, lines 395-523: one maneuver per step.
LinkManeuver ==
    /\ pc = "link"
    /\ cursor <= Len(maneuvers)
    /\ maneuvers' = LinkOne(waysById(ways), maneuvers, cursor)
    /\ warned' = IF Len(RemainingCandidates(waysById(ways), maneuvers, cursor)) < 2
                 THEN warned
                 ELSE Append(warned, [kind |-> "ambiguous", at |-> cursor])
    /\ IF cursor < Len(maneuvers)
       THEN /\ cursor' = cursor + 1
            /\ pc' = "link"
       ELSE /\ cursor' = 1
            /\ pc' = "prepare"
    /\ UNCHANGED <<ways, roots, output, probe>>

\* Lines 528-538: every maneuver gets fromWays and progressions, and the
\* array is filtered down to the maneuvers that are not connections.
Prepare ==
    /\ pc = "prepare"
    /\ maneuvers' = [j \in 1..Len(maneuvers) |-> PrepareOne(maneuvers[j])]
    /\ roots' = NotConnections(maneuvers)
    /\ cursor' = 1
    /\ pc' = IF Len(roots') > 0 THEN "flatten" ELSE "done"
    /\ UNCHANGED <<ways, output, warned, probe>>

\* maneuvers.forEach(flattenManeuver), line 539: one root per step.
FlattenRoot ==
    /\ pc = "flatten"
    /\ cursor <= Len(roots)
    /\ LET flat == flattenManeuver(maneuvers, warned, roots[cursor], 1)
       IN  IF flat.overflow
           THEN /\ pc' = "crashed"
                /\ UNCHANGED <<cursor, maneuvers, warned>>
           ELSE /\ maneuvers' = flat.ms
                /\ warned' = flat.warned
                /\ IF cursor < Len(roots)
                   THEN /\ cursor' = cursor + 1
                        /\ pc' = "flatten"
                   ELSE /\ cursor' = 1
                        /\ pc' = "output"
    /\ UNCHANGED <<ways, roots, output, probe>>

\* The output loop, lines 543-573: one entry per step.
WriteEntry ==
    /\ pc = "output"
    /\ cursor <= Len(roots)
    /\ output' = Append(output, Entry(waysById(ways), maneuvers[roots[cursor]]))
    /\ IF cursor < Len(roots)
       THEN /\ cursor' = cursor + 1
            /\ pc' = "output"
       ELSE /\ cursor' = 1
            /\ pc' = "done"
    /\ UNCHANGED <<ways, maneuvers, roots, warned, probe>>

Next == ExtractWay \/ LinkManeuver \/ Prepare \/ FlattenRoot \/ WriteEntry

(***************************************************************************)
(* Inputs of the batch                                                     *)
(***************************************************************************)

\* The number of ways in the input.
NumWays == 3

\* The id of the i-th way of the input.
WayId(i) == 100 + i

\* The end nodes a way is drawn with: a path 1-2-3-4 and a way back from 2
\* to 1, so that chains, shared successors, forks and loops all occur.
WayEnds == {<<1, 2>>, <<2, 3>>, <<3, 4>>, <<2, 1>>}

\* The oneway tag of a way; Undefined is a way without the tag.
OnewayValues == {<<"yes">>, <<"-1">>, Undefined}

\* The tags and the geometry that go with the position of a way in the
\* input: lane counts, names, lengths and bearings differ from way to way.
TurnLanesOf(i) ==
    CASE i % 3 = 1 -> <<"left">>
      [] i % 3 = 2 -> <<"left", "|", "left", ";", "right">>
      [] OTHER -> <<"through", "|", "left">>

NameOf(i) == IF i % 3 = 0 THEN <<"B Street">> ELSE <<"A Street">>

\* Every way is longer than twice maxLengthForTurnAngle, so that any two end
\* nodes and any two end bearings belong to some polyline.
LengthOf(i) == 70 + 10 * i

BearingOf(i) == IF i % 3 = 0 THEN 20 ELSE 0

\* A way of the batch input.
BatchWay(i, ends, oneway) ==
    [id |-> WayId(i),
     nodes |-> ends,
     tags |-> ("highway" :> <<"primary">>)
              @@ ("turn:lanes" :> TurnLanesOf(i))
              @@ ("name" :> NameOf(i))
              @@ (IF oneway = Undefined THEN <<>> ELSE ("oneway" :> oneway)),
     line |-> [len |-> LengthOf(i), head |-> BearingOf(i), tail |-> BearingOf(i),
               first |-> ends[1], last |-> ends[2]]]

NoProbe == [fn |-> "none"]

\* The state when the readFile callback has parsed the input.
BatchStart(ws) ==
    /\ ways = ws
    /\ pc = "extract"
    /\ cursor = 1
    /\ maneuvers = <<>>
    /\ roots = <<>>
    /\ output = <<>>
    /\ warned = <<>>
    /\ probe = NoProbe

Init ==
    \E ends \in [1..NumWays -> WayEnds], oneway \in [1..NumWays -> OnewayValues] :
        BatchStart([i \in 1..NumWays |-> BatchWay(i, ends[i], oneway[i])])

Spec == Init /\ [][Next]_vars

\* ---- Batches for the linking pass ----------------------------------------

\* The road classes a way of such a batch is drawn with.
LinkHighways == {<<"primary">>, <<"service">>, <<"primary_link">>}

\* The lane tagging a way of such a batch is drawn with: a turn lane between
\* two through lanes, with change tagging that makes the maneuver protected,
\* unprotected or of unknown protection, or that holds a value the decoder
\* does not know.
LinkTaggings ==
    {"leftProtected", "leftOpen", "leftUntagged", "rightUntagged", "leftBogus"}

LinkTaggingTags(tagging) ==
    CASE tagging = "leftProtected" ->
            ("turn:lanes" :> <<"through", "|", "left", "|", "through">>)
            @@ ("change:lanes" :> <<"yes", "|", "no", "|", "yes">>)
      [] tagging = "leftOpen" ->
            ("turn:lanes" :> <<"through", "|", "left", "|", "through">>)
            @@ ("change:lanes" :> <<"yes", "|", "yes", "|", "yes">>)
      [] tagging = "leftUntagged" ->
            ("turn:lanes" :> <<"through", "|", "left", "|", "through">>)
      [] tagging = "rightUntagged" ->
            ("turn:lanes" :> <<"through", "|", "right", "|", "through">>)
      [] OTHER ->
            ("turn:lanes" :> <<"through", "|", "left", "|", "through">>)
            @@ ("change:lanes" :> <<"bogus", "|", "no", "|", "yes">>)

\* The first way runs from node 1 to node 2, every other way on from node 2.
LinkEnds(i) == IF i = 1 THEN <<1, 2>> ELSE <<2, 3>>

\* A one-way way of a batch for the linking pass.
LinkWay(i, highway, tagging) ==
    [id |-> WayId(i),
     nodes |-> LinkEnds(i),
     tags |-> ("highway" :> highway) @@ ("oneway" :> <<"yes">>)
              @@ ("name" :> NameOf(i)) @@ LinkTaggingTags(tagging),
     line |-> [len |-> LengthOf(i), head |-> BearingOf(i), tail |-> BearingOf(i),
               first |-> LinkEnds(i)[1], last |-> LinkEnds(i)[2]]]

InitLink ==
    \E highway \in [1..NumWays -> LinkHighways],
       tagging \in [1..NumWays -> LinkTaggings] :
        BatchStart([i \in 1..NumWays |-> LinkWay(i, highway[i], tagging[i])])

SpecLink == InitLink /\ [][Next]_vars

\* ---- Batches of two ways for the bearing filter ---------------------------

\* The bearings, in the direction of travel, a way is drawn with at the end
\* where it is entered and at the end where it is left.
TravelBearings == {-175, 175, 0, 40}

\* The lengths a way is drawn with, below and above maxLengthForTurnAngle.
BearingLengths == {30, 80}

\* The way is mapped in the direction of travel or against it.
Mappings == {"along", "against"}

\* A way travelled from node from to node to, entered with bearing entry
\* and left with bearing exit, mapped along or against the travel.
BearingWay(i, from, to, mapping, len, entry, exit) ==
    [id |-> WayId(i),
     nodes |-> IF mapping = "along" THEN <<from, to>> ELSE <<to, from>>,
     tags |-> ("highway" :> <<"primary">>) @@ ("turn:lanes" :> <<"left">>)
              @@ ("name" :> <<"A Street">>)
              @@ ("oneway" :> IF mapping = "along" THEN <<"yes">> ELSE <<"-1">>),
     line |-> IF mapping = "along"
              THEN [len |-> len, head |-> entry, tail |-> exit,
                    first |-> from, last |-> to]
              ELSE [len |-> len, head |-> ReverseBearing(exit),
                    tail |-> ReverseBearing(entry),
                    first |-> to, last |-> from]]

\* A way shorter than twice maxLengthForTurnAngle is straight from end to
\* end, the model taking a way for straight that near to each of its ends.
InitBearing ==
    \E mapping \in [1..2 -> Mappings], len \in [1..2 -> BearingLengths],
       entry \in [1..2 -> TravelBearings], exit \in [1..2 -> TravelBearings] :
        /\ \A i \in 1..2 :
              len[i] < 2 * maxLengthForTurnAngle => entry[i] = exit[i]
        /\ BatchStart([i \in 1..2 |->
                BearingWay(i, i, i + 1, mapping[i], len[i], entry[i], exit[i])])

SpecBearing == InitBearing /\ [][Next]_vars

\* ---- Batches of ways in a row for the flatten stage -----------------------

\* The left-turn tagging a way of such a batch is drawn with: one left lane
\* of unknown protection, two left lanes of unknown protection, one
\* protected left lane, one unprotected left lane.
ChainTaggings == {"oneLane", "twoLanes", "protected", "open"}

ChainTaggingTags(tagging) ==
    CASE tagging = "oneLane" ->
            ("turn:lanes" :> <<"through", "|", "left", "|", "through">>)
      [] tagging = "twoLanes" ->
            ("turn:lanes" :> <<"through", "|", "left", "|", "left", "|", "through">>)
      [] tagging = "protected" ->
            ("turn:lanes" :> <<"through", "|", "left", "|", "through">>)
            @@ ("change:lanes" :> <<"yes", "|", "no", "|", "yes">>)
      [] OTHER ->
            ("turn:lanes" :> <<"through", "|", "left", "|", "through">>)
            @@ ("change:lanes" :> <<"yes", "|", "yes", "|", "yes">>)

\* The maxspeed tag a way of such a batch is drawn with.
ChainSpeeds == {Undefined, <<"30">>, <<"25", " mph">>}

\* The i-th way runs from node i to node i + 1, straight on from the way
\* before it.
ChainWay(i, tagging, speed) ==
    [id |-> WayId(i),
     nodes |-> <<i, i + 1>>,
     tags |-> ("highway" :> <<"primary">>) @@ ("oneway" :> <<"yes">>)
              @@ ("name" :> <<"A Street">>) @@ ChainTaggingTags(tagging)
              @@ (IF speed = Undefined THEN <<>> ELSE ("maxspeed" :> speed)),
     line |-> [len |-> LengthOf(i), head |-> 0, tail |-> 0,
               first |-> i, last |-> i + 1]]

InitChain ==
    \E tagging \in [1..NumWays -> ChainTaggings],
       speed \in [1..NumWays -> ChainSpeeds] :
        BatchStart([i \in 1..NumWays |-> ChainWay(i, tagging[i], speed[i])])

SpecChain == InitChain /\ [][Next]_vars

(***************************************************************************)
(* Single calls of the lane decoder and of the extractor                   *)
(***************************************************************************)

\* The state of a run that makes one function call and no batch.
NoBatch ==
    /\ ways = <<>>
    /\ pc = "idle"
    /\ cursor = 0
    /\ maneuvers = <<>>
    /\ roots = <<>>
    /\ output = <<>>
    /\ warned = <<>>

\* words.join(sep) for a list of strings.
RECURSIVE Join(_, _)
Join(strings, sep) ==
    IF Len(strings) = 0 THEN <<>>
    ELSE IF Len(strings) = 1 THEN strings[1]
    ELSE strings[1] \o <<sep>> \o Join(Tail(strings), sep)

\* A way with the given tags, for a single call.
TaggedWay(tags) ==
    [id |-> WayId(1),
     nodes |-> <<1, 2>>,
     tags |-> tags,
     line |-> [len |-> LengthOf(1), head |-> 0, tail |-> 0, first |-> 1, last |-> 2]]

\* One tag, or no tag when the value is undefined.
OneTag(key, value) == IF value = Undefined THEN <<>> ELSE (key :> value)

Progressions == {1, -1}

\* ---- getLaneCount ------------------------------------------------------

\* The numbers a lanes tag is drawn from.
MinLanesTag == -2

MaxLanesTag == 4

\* What a lanes tag holds: nothing, a word that is no number, or a number.
LanesTagChoices ==
    {[kind |-> "absent", n |-> 0], [kind |-> "word", n |-> 0]}
    \cup {[kind |-> "number", n |-> k] : k \in MinLanesTag..MaxLanesTag}

LanesTagText(choice) ==
    CASE choice.kind = "absent" -> Undefined
      [] choice.kind = "word" -> <<"many">>
      [] OTHER -> <<ToString(choice.n)>>

LaneCountOneways == {Undefined, <<"yes">>, <<"-1">>, <<"no">>}

InitLaneCount ==
    /\ NoBatch
    /\ \E forward \in LanesTagChoices, backward \in LanesTagChoices,
          total \in LanesTagChoices, oneway \in LaneCountOneways,
          progression \in Progressions :
          probe = [fn |-> "getLaneCount",
                   forward |-> forward, backward |-> backward, total |-> total,
                   oneway |-> oneway,
                   way |-> TaggedWay(OneTag("lanes:forward", LanesTagText(forward))
                                     @@ OneTag("lanes:backward", LanesTagText(backward))
                                     @@ OneTag("lanes", LanesTagText(total))
                                     @@ OneTag("oneway", oneway)),
                   progression |-> progression,
                   called |-> FALSE,
                   result |-> 0]

CallGetLaneCount ==
    /\ probe.fn = "getLaneCount"
    /\ ~probe.called
    /\ probe' = [probe EXCEPT !.called = TRUE,
                              !.result = getLaneCount(probe.way, probe.progression)]
    /\ UNCHANGED <<ways, pc, cursor, maneuvers, roots, output, warned>>

SpecLaneCount == InitLaneCount /\ [][CallGetLaneCount]_vars

\* ---- getTagsForProgression ---------------------------------------------

\* The largest lane count passed to getTagsForProgression; 0 is a call
\* without a lane count.
MaxLaneCount == 3

\* The six keys of one tag family, each present with a value of its own or
\* absent.
TagFamilyKeys ==
    <<"name:lanes:forward", "name:lanes:backward", "name:lanes",
      "name:forward", "name:backward", "name">>

TagFamilyValue(k) ==
    <<<<"Lf1", "|", "Lf2">>, <<"Lb1", "|", "Lb2">>, <<"L1", "|", "L2">>,
      <<"Forward Street">>, <<"Backward Street">>, <<"Main Street">>>>[k]

InitTags ==
    /\ NoBatch
    /\ \E present \in SUBSET (1..Len(TagFamilyKeys)),
          progression \in Progressions, laneCount \in 0..MaxLaneCount :
          probe = [fn |-> "getTagsForProgression",
                   present |-> present,
                   way |-> TaggedWay([key \in {TagFamilyKeys[k] : k \in present} |->
                              TagFamilyValue(CHOOSE k \in present : TagFamilyKeys[k] = key)]),
                   progression |-> progression,
                   laneCount |-> laneCount,
                   called |-> FALSE,
                   result |-> Undefined]

CallGetTagsForProgression ==
    /\ probe.fn = "getTagsForProgression"
    /\ ~probe.called
    /\ probe' = [probe EXCEPT
                    !.called = TRUE,
                    !.result = getTagsForProgression("name", probe.way,
                                   probe.progression, probe.laneCount)]
    /\ UNCHANGED <<ways, pc, cursor, maneuvers, roots, output, warned>>

SpecTags == InitTags /\ [][CallGetTagsForProgression]_vars

\* ---- getManeuvers ------------------------------------------------------

\* The largest number of lanes in the turn and change tagging of one call.
MaxLanes == 2

\* The turn indications of one lane, as the list of its words; the empty
\* list is a lane without indication.
LaneIndications ==
    {<<>>, <<"none">>, <<"left">>, <<"through">>, <<"reverse">>,
     <<"left", "right">>, <<"through", "slight_right">>, <<"slight_left">>}

\* The change values of one lane; "bogus" is no value the decoder knows.
ChangeWords == {"yes", "no", "not_left", "bogus"}

\* Lists of 1 to MaxLanes elements of a set.
LaneLists(S) == UNION {[1..n -> S] : n \in 1..MaxLanes}

\* The text of a turn tag: words joined by ";" within a lane, lanes by "|".
TurnText(lanes) == Join([i \in 1..Len(lanes) |-> Join([j \in 1..Len(lanes[i]) |-> <<lanes[i][j]>>], ";")], "|")

\* The text of a change tag, "" for no lanes.
ChangeText(lanes) == Join([i \in 1..Len(lanes) |-> <<lanes[i]>>], "|")

\* The tagging schemes of one call: per-lane keys for both directions, per-
\* lane keys for the forward direction, or a scalar turn tag on a one-way
\* road with a lanes tag.
TagSchemes == {"lanes", "lanes:forward", "scalar"}

ExtractTags(scheme, turnLanes, changeLanes, lanesTag) ==
    ("highway" :> <<"primary">>) @@ ("oneway" :> <<"yes">>)
    @@ (CASE scheme = "lanes" ->
                OneTag("turn:lanes", TurnText(turnLanes))
                @@ OneTag("change:lanes", ChangeText(changeLanes))
          [] scheme = "lanes:forward" ->
                OneTag("turn:lanes:forward", TurnText(turnLanes))
                @@ OneTag("change:lanes:forward", ChangeText(changeLanes))
          [] OTHER ->
                OneTag("turn", TurnText(<<turnLanes[1]>>))
                @@ OneTag("change:lanes", ChangeText(changeLanes))
                @@ OneTag("lanes", <<ToString(lanesTag)>>))

InitExtract ==
    /\ NoBatch
    /\ \E scheme \in TagSchemes, turnLanes \in LaneLists(LaneIndications),
          changeLanes \in LaneLists(ChangeWords) \cup {<<>>},
          lanesTag \in -1..MaxLanes, progression \in Progressions :
          /\ scheme # "scalar" => lanesTag = 0
          /\ scheme = "scalar" => Len(turnLanes) = 1
          /\ probe = [fn |-> "getManeuvers",
                      scheme |-> scheme,
                      turnLanes |-> turnLanes,
                      changeLanes |-> changeLanes,
                      lanesTag |-> lanesTag,
                      way |-> TaggedWay(ExtractTags(scheme, turnLanes, changeLanes, lanesTag)),
                      progression |-> progression,
                      called |-> FALSE,
                      threw |-> FALSE,
                      result |-> <<>>]

CallGetManeuvers ==
    /\ probe.fn = "getManeuvers"
    /\ ~probe.called
    /\ probe' = IF getManeuversThrows(probe.way, probe.progression)
                THEN [probe EXCEPT !.called = TRUE, !.threw = TRUE]
                ELSE [probe EXCEPT !.called = TRUE,
                                   !.result = getManeuvers(probe.way, probe.progression)]
    /\ UNCHANGED <<ways, pc, cursor, maneuvers, roots, output, warned>>

SpecExtract == InitExtract /\ [][CallGetManeuvers]_vars

\* ---- change tag decoding ---------------------------------------------------

\* The change values of one lane: the six values the decoder knows and one
\* it does not.
AllChangeWords ==
    {"yes", "no", "not_left", "only_right", "not_right", "only_left", "bogus"}

\* One lane more than MaxLanes, so that a lane lies between the first and
\* the last.
ChangeLaneLists == UNION {[1..n -> AllChangeWords] : n \in 1..(MaxLanes + 1)}

InitChange ==
    /\ NoBatch
    /\ \E changeLanes \in ChangeLaneLists :
          probe = [fn |-> "decodeChange",
                   changeLanes |-> changeLanes,
                   called |-> FALSE,
                   threw |-> FALSE,
                   result |-> <<>>]

\* Lines 135-158 of getManeuvers on the change tag of the call.
CallDecodeChange ==
    /\ probe.fn = "decodeChange"
    /\ ~probe.called
    /\ LET decoded == DecodeChange(ChangeText(probe.changeLanes))
       IN  probe' = IF ResetEdgesThrows(decoded)
                    THEN [probe EXCEPT !.called = TRUE, !.threw = TRUE]
                    ELSE [probe EXCEPT !.called = TRUE,
                                       !.result = ResetEdges(decoded)]
    /\ UNCHANGED <<ways, pc, cursor, maneuvers, roots, output, warned>>

SpecChange == InitChange /\ [][CallDecodeChange]_vars

\* ---- getManeuvers on ways with speed limits -------------------------------

\* The numbers of the speed tags.
SpeedNumbers == {25, 30, 50}

\* What a speed tag holds: nothing, a word that is no number, a bare number
\* or a number of miles per hour.
SpeedChoices ==
    {[kind |-> "absent", n |-> 0], [kind |-> "word", n |-> 0]}
    \cup {[kind |-> k, n |-> n] : k \in {"bare", "mph"}, n \in SpeedNumbers}

SpeedText(choice) ==
    CASE choice.kind = "absent" -> Undefined
      [] choice.kind = "word" -> <<"signals">>
      [] choice.kind = "bare" -> <<ToString(choice.n)>>
      [] OTHER -> <<ToString(choice.n), " mph">>

InitSpeed ==
    /\ NoBatch
    /\ \E legal \in SpeedChoices, advisory \in SpeedChoices,
          progression \in Progressions :
          probe = [fn |-> "getManeuvers",
                   legal |-> legal,
                   advisory |-> advisory,
                   way |-> TaggedWay(("highway" :> <<"primary">>)
                                     @@ ("turn:lanes" :> <<"left">>)
                                     @@ OneTag("maxspeed", SpeedText(legal))
                                     @@ OneTag("maxspeed:advisory", SpeedText(advisory))),
                   progression |-> progression,
                   called |-> FALSE,
                   threw |-> FALSE,
                   result |-> <<>>]

SpecSpeed == InitSpeed /\ [][CallGetManeuvers]_vars

\* ---- the callback of ways.forEach on one way -------------------------------

\* The oneway, highway, lanes and turn tags a way is drawn with; Undefined
\* is a way without the tag.
WayOneways == {Undefined, <<"yes">>, <<"-1">>, <<"no">>}

WayLanesTags == {Undefined, <<"1">>, <<"2">>}

WayTurnTags == {Undefined, <<"left">>}

WayTurnLanesTags == {Undefined, <<"left", "|", "right">>}

InitWay ==
    /\ NoBatch
    /\ \E oneway \in WayOneways, highway \in LinkHighways, lanes \in WayLanesTags,
          turn \in WayTurnTags, turnLanes \in WayTurnLanesTags :
          probe = [fn |-> "wayCallback",
                   way |-> TaggedWay(("highway" :> highway)
                                     @@ OneTag("oneway", oneway)
                                     @@ OneTag("lanes", lanes)
                                     @@ OneTag("turn", turn)
                                     @@ OneTag("turn:lanes", turnLanes)),
                   called |-> FALSE,
                   threw |-> FALSE,
                   skipped |-> FALSE,
                   forward |-> FALSE,
                   backward |-> FALSE,
                   result |-> <<>>]

\* Lines 373-391 on the way of the call: whether the way is skipped as a
\* turn channel, the directions getManeuvers is called for, and wayManeuvers.
CallWayCallback ==
    /\ probe.fn = "wayCallback"
    /\ ~probe.called
    /\ probe' = IF WayCallbackThrows(probe.way)
                THEN [probe EXCEPT !.called = TRUE, !.threw = TRUE]
                ELSE [probe EXCEPT
                         !.called = TRUE,
                         !.skipped = IsTurnChannel(probe.way),
                         !.forward = ~IsTurnChannel(probe.way)
                                         /\ ExtractsForward(probe.way),
                         !.backward = ~IsTurnChannel(probe.way)
                                          /\ ExtractsBackward(probe.way),
                         !.result = WayManeuvers(probe.way)]
    /\ UNCHANGED <<ways, pc, cursor, maneuvers, roots, output, warned>>

SpecWay == InitWay /\ [][CallWayCallback]_vars

(***************************************************************************)
(* Properties                                                              *)
(***************************************************************************)

\* The maneuvers of the whole input as the extraction loop leaves them.
RECURSIVE ExtractedFrom(_, _)
ExtractedFrom(ws, i) ==
    IF i > Len(ws) THEN <<>> ELSE WayManeuvers(ws[i]) \o ExtractedFrom(ws, i + 1)

\* The maneuvers as the linking pass leaves them, from maneuver m on.
RECURSIVE LinkedFrom(_, _, _)
LinkedFrom(byId, ms, m) ==
    IF m > Len(ms) THEN ms ELSE LinkedFrom(byId, LinkOne(byId, ms, m), m + 1)

\* The pool of single-way maneuvers after the linking pass.
Linked == LinkedFrom(waysById(ways), ExtractedFrom(ways, 1), 1)

\* The maneuvers met by following next from maneuver i, at most fuel of them.
RECURSIVE ChainFrom(_, _, _)
ChainFrom(ms, i, fuel) ==
    IF i = 0 \/ fuel = 0 THEN <<>>
    ELSE <<i>> \o ChainFrom(ms, ms[i].next, fuel - 1)

ChainOf(ms, i) == ChainFrom(ms, i, Len(ms) + 1)

\* Following next from maneuver i ends, and so never comes back.
Acyclic(ms, i) == Len(ChainOf(ms, i)) <= Len(ms)

\* The sum and the largest of a list of numbers.
RECURSIVE SumOf(_)
SumOf(numbers) ==
    IF Len(numbers) = 0 THEN 0 ELSE numbers[1] + SumOf(Tail(numbers))

LargestOf(numbers) ==
    CHOOSE x \in {numbers[i] : i \in 1..Len(numbers)} :
        \A i \in 1..Len(numbers) : numbers[i] <= x

\* The flatten stage has dealt with the k-th root.
Flattened(k) == pc \in {"output", "done"} \/ (pc = "flatten" /\ k < cursor)

\* The node at which a way is entered and left when travelled with the
\* given progression.
StartNode(wayId, progression) ==
    LET nodes == waysById(ways)[wayId].nodes
    IN  IF progression > 0 THEN nodes[1] ELSE nodes[Len(nodes)]

EndNode(wayId, progression) ==
    LET nodes == waysById(ways)[wayId].nodes
    IN  IF progression > 0 THEN nodes[Len(nodes)] ELSE nodes[1]

\* The position of a way in the input.
WayIndex(wayId) == CHOOSE i \in 1..Len(ways) : ways[i].id = wayId

\* C1 (as claimed): a linking step that ends with more than one candidate
\* sets no next on the maneuver and marks none of the candidates as a
\* connection.
C1_AmbiguityLeavesUnlinked ==
    [][(pc = "link" /\ Len(RemainingCandidates(waysById(ways), maneuvers, cursor)) > 1)
        => LET cands == RemainingCandidates(waysById(ways), maneuvers, cursor)
           IN  /\ maneuvers'[cursor].next = 0
               /\ \A k \in 1..Len(cands) :
                     maneuvers'[cands[k]].isConnection = maneuvers[cands[k]].isConnection]_vars

\* C2: once the flatten stage has dealt with a root whose linked chain
\* s1 -> ... -> sn (n >= 2) is acyclic, the root holds the ways and the
\* progressions of s1..sn in order, the via node of sn, the largest lane
\* count and the sum of the lengths; it is a root exactly once and, at the
\* end, its entry is written with these values.
C2_ChainFlattenedInOrder ==
    pc \in {"flatten", "output", "done"}
    => LET pool == Linked
       IN  \A r \in 1..Len(pool) :
              LET chain == ChainOf(pool, r)
                  n == Len(chain)
                  m == maneuvers[r]
              IN  (~pool[r].isConnection /\ Acyclic(pool, r) /\ n >= 2)
                  => /\ Cardinality({k \in 1..Len(roots) : roots[k] = r}) = 1
                     /\ \A k \in 1..Len(roots) :
                           (roots[k] = r /\ Flattened(k))
                           => /\ m.fromWays = [i \in 1..n |-> pool[chain[i]].fromWay]
                              /\ m.progressions =
                                    [i \in 1..n |-> pool[chain[i]].progression]
                              /\ m.viaNode = pool[chain[n]].viaNode
                              /\ m.lanes = LargestOf([i \in 1..n |-> pool[chain[i]].lanes])
                              /\ turfLength(m.line) =
                                    SumOf([i \in 1..n |->
                                        waysById(ways)[pool[chain[i]].fromWay].line.len])
                              /\ pc = "done"
                                 => /\ Len(output) = Len(roots)
                                    /\ output[k].viaNode = m.viaNode
                                    /\ output[k].lanes = m.lanes
                                    /\ output[k].length = turfLength(m.line)

\* C2 witness: a chain of three ways with differing lane counts has been
\* flattened and written.
C2_Witness ==
    /\ pc = "done"
    /\ \E k \in 1..Len(roots) :
          /\ Len(maneuvers[roots[k]].fromWays) >= 3
          /\ Len(ChainOf(Linked, roots[k])) >= 3
          /\ maneuvers[roots[k]].lanes > Linked[roots[k]].lanes

\* C3: at the end the entries written are those of the maneuvers the
\* linking pass never marked as a connection, one entry each, and no entry
\* is headed by a maneuver marked as a connection.
C3_OutputIsTheRoots ==
    pc = "done"
    => LET pool == Linked
       IN  /\ \A j \in 1..Len(pool) :
                 Cardinality({k \in 1..Len(roots) : roots[k] = j})
                     = IF pool[j].isConnection THEN 0 ELSE 1
           /\ Len(output) = Len(roots)
           /\ \A k \in 1..Len(output) :
                 /\ ~pool[roots[k]].isConnection
                 /\ output[k].fromNode = pool[roots[k]].fromNode
                 /\ output[k].turn = pool[roots[k]].turn

\* C3 witness: a batch has ended with connections merged away and several
\* entries written.
C3_Witness ==
    /\ pc = "done"
    /\ Len(output) >= 2
    /\ \E j \in 1..Len(maneuvers) : maneuvers[j].isConnection

\* C4 (as claimed): following next from any maneuver never comes back to it.
C4_NextIsAcyclic ==
    \A i \in 1..Len(maneuvers) : Acyclic(maneuvers, i)

\* C5: in every maneuver handed to the output loop the ways and the
\* progressions are equally many, each way ends at the node where the
\* following one starts, the start node is where the first way starts and
\* the via node is where the last way ends.
C5_RouteIsContiguous ==
    pc \in {"output", "done"}
    => \A k \in 1..Len(roots) :
          LET m == maneuvers[roots[k]]
              n == Len(m.fromWays)
          IN  /\ n >= 1
              /\ Len(m.progressions) = n
              /\ \A i \in 1..(n - 1) :
                    EndNode(m.fromWays[i], m.progressions[i])
                        = StartNode(m.fromWays[i + 1], m.progressions[i + 1])
              /\ m.fromNode = StartNode(m.fromWays[1], m.progressions[1])
              /\ m.viaNode = EndNode(m.fromWays[n], m.progressions[n])

\* C5 witness: a written maneuver spans several ways, one of them
\* travelled backward.
C5_Witness ==
    /\ pc = "done"
    /\ \E k \in 1..Len(roots) :
          LET m == maneuvers[roots[k]]
          IN  /\ Len(m.fromWays) >= 2
              /\ \E i \in 1..Len(m.progressions) : m.progressions[i] < 0

\* C6: the entries are written in the order in which the head ways of
\* their maneuvers stand in the input, the roots keep the order in which
\* the maneuvers were created, and the k-th entry is that of the k-th root.
C6_OutputInWayOrder ==
    pc \in {"output", "done"}
    => /\ \A i \in 1..Len(roots) : \A j \in 1..Len(roots) :
             i < j => /\ roots[i] < roots[j]
                      /\ WayIndex(maneuvers[roots[i]].fromWays[1])
                             <= WayIndex(maneuvers[roots[j]].fromWays[1])
       /\ \A k \in 1..Len(output) :
             output[k] = Entry(waysById(ways), maneuvers[roots[k]])

\* C6 witness: entries headed by different ways have been written, one of
\* them for a merged maneuver.
C6_Witness ==
    /\ pc = "done"
    /\ \E i \in 1..Len(output) : \E j \in 1..Len(output) :
          /\ i < j
          /\ maneuvers[roots[i]].fromWays[1] # maneuvers[roots[j]].fromWays[1]
          /\ Len(maneuvers[roots[j]].fromWays) >= 2

\* The lanes the turn tagging of a getManeuvers call describes for the
\* direction of the call: none when the tagging is for the other direction.
GivenTurnLanes ==
    CASE probe.scheme = "lanes" -> probe.turnLanes
      [] probe.scheme = "lanes:forward" ->
            IF probe.progression > 0 THEN probe.turnLanes ELSE <<>>
      [] OTHER ->
            [i \in 1..(IF probe.lanesTag >= 1 THEN probe.lanesTag ELSE 1) |->
                probe.turnLanes[1]]

\* The change tagging of the call applies to the direction of the call.
GivenChangeLanes ==
    IF probe.scheme = "lanes:forward" /\ probe.progression < 0
    THEN <<>> ELSE probe.changeLanes

\* The call has turn tagging and passes decoding: the tag is not empty, the
\* change tagging, if any, has as many lanes, and the call returned.
DecodesTurnLanes ==
    /\ probe.fn = "getManeuvers"
    /\ probe.called
    /\ ~probe.threw
    /\ TurnText(GivenTurnLanes) # Undefined
    /\ GivenChangeLanes # <<>> => Len(GivenChangeLanes) = Len(GivenTurnLanes)

\* The words that put a lane in the bucket of a turn type.
WordsOf(turn) ==
    CASE turn = "left" -> {"left", "slight_left"}
      [] turn = "right" -> {"right", "slight_right"}
      [] OTHER -> {turn}

\* The lanes whose indication holds a word of the turn type.
LanesWith(lanes, turn) ==
    {i \in 1..Len(lanes) : \E j \in 1..Len(lanes[i]) : lanes[i][j] \in WordsOf(turn)}

\* C7: a call with turn tagging that passes decoding returns, for each of
\* reverse, left and right, one maneuver when some lane holds the turn (or
\* its slight form) and none otherwise; its lane count is the number of
\* those lanes; no maneuver has any other turn type.
C7_OneManeuverPerTurnType ==
    DecodesTurnLanes
    => /\ \A i \in 1..Len(probe.result) :
             probe.result[i].turn \in {"reverse", "left", "right"}
       /\ \A turn \in {"reverse", "left", "right"} :
             LET with == LanesWith(GivenTurnLanes, turn)
                 made == {i \in 1..Len(probe.result) : probe.result[i].turn = turn}
             IN  /\ Cardinality(made) = IF with = {} THEN 0 ELSE 1
                 /\ \A i \in made : /\ probe.result[i].lanes = Cardinality(with)
                                    /\ probe.result[i].lanes >= 1

\* C7 witness: a lane marked left;right beside a slight_left lane gave a
\* left maneuver of two lanes and a right maneuver of one.
C7_Witness ==
    /\ DecodesTurnLanes
    /\ GivenTurnLanes = <<<<"slight_left">>, <<"left", "right">>>>
    /\ Len(probe.result) = 2
    /\ probe.result[1].lanes = 2
    /\ probe.result[2].lanes = 1

\* C8 (as claimed): getLaneCount returns the directional value when it is a
\* positive integer, otherwise the total value, halved downward on a way
\* open in both directions, and 1 when nothing parses or the value is 0;
\* the result is at least 1.
C8_LaneCountAsClaimed ==
    (probe.fn = "getLaneCount" /\ probe.called)
    => LET directional == IF probe.progression > 0 THEN probe.forward
                          ELSE probe.backward
           bothWays == probe.oneway # <<"yes">> /\ probe.oneway # <<"-1">>
           fromTotal == IF bothWays THEN probe.total.n \div 2 ELSE probe.total.n
           expected ==
               IF directional.kind = "number" /\ directional.n > 0
               THEN directional.n
               ELSE IF probe.total.kind = "number" /\ fromTotal # 0
                    THEN fromTotal
                    ELSE 1
       IN  /\ probe.result = expected
           /\ probe.result >= 1

\* The key of the tag family that the call is expected to answer with, as
\* an index of TagFamilyKeys; 0 when none of the four keys is present.
FirstPresentKey ==
    LET order == IF probe.progression > 0 THEN <<1, 3, 4, 6>> ELSE <<2, 3, 5, 6>>
        found == {k \in 1..4 : order[k] \in probe.present}
    IN  IF found = {} THEN 0
        ELSE order[CHOOSE k \in found : \A l \in found : k <= l]

\* C9: getTagsForProgression returns the first present value in the order
\* tag:lanes:direction, tag:lanes, tag:direction, tag; a value of one of
\* the two scalar keys is returned laneCount times with "|" between when a
\* lane count is given, and a per-lane value as it is.
C9_TagPrecedence ==
    (probe.fn = "getTagsForProgression" /\ probe.called)
    => LET key == FirstPresentKey
       IN  IF key = 0 THEN probe.result = Undefined
           ELSE IF key \in {1, 2, 3} \/ probe.laneCount = 0
                THEN probe.result = TagFamilyValue(key)
                ELSE /\ Len(probe.result) = 2 * probe.laneCount - 1
                     /\ \A i \in 1..Len(probe.result) :
                           probe.result[i] =
                               IF i % 2 = 1 THEN TagFamilyValue(key)[1] ELSE "|"

\* C9 witness: with only per-lane keys of the other direction and scalar
\* keys present, the directional scalar value was returned three times.
C9_Witness ==
    /\ probe.fn = "getTagsForProgression"
    /\ probe.called
    /\ probe.progression < 0
    /\ probe.present = {1, 4, 5, 6}
    /\ probe.laneCount = 3
    /\ probe.result = <<"Backward Street", "|", "Backward Street", "|", "Backward Street">>

\* A call for the forward direction of a way with two lanes, both left-turn
\* lanes, and change:lanes:forward = "no|yes".
TwoLeftLanesNoYes ==
    /\ probe.fn = "getManeuvers"
    /\ probe.called
    /\ probe.scheme = "lanes:forward"
    /\ probe.progression > 0
    /\ Len(probe.turnLanes) = 2
    /\ LanesWith(probe.turnLanes, "left") = {1, 2}
    /\ probe.changeLanes = <<"no", "yes">>

\* C10 (as claimed): the left maneuver of such a way has protection true.
C10_TwoLeftLanesProtected ==
    TwoLeftLanesNoYes
    => \E i \in 1..Len(probe.result) :
          probe.result[i].turn = "left" /\ probe.result[i].protected = "true"

\* C10 (amended): the left maneuver of such a way covers both lanes and its
\* protection is unknown, the left lanes reaching from one edge of the road
\* to the other.
C10_TwoLeftLanesUnknown ==
    TwoLeftLanesNoYes
    => /\ ~probe.threw
       /\ \E i \in 1..Len(probe.result) : probe.result[i].turn = "left"
       /\ \A i \in 1..Len(probe.result) :
             probe.result[i].turn = "left"
             => probe.result[i].lanes = 2 /\ probe.result[i].protected = "undefined"

\* C10 witness: the call on turn:lanes:forward = "left|left" has returned
\* its single maneuver.
C10_Witness ==
    /\ TwoLeftLanesNoYes
    /\ probe.turnLanes = <<<<"left">>, <<"left">>>>
    /\ Len(probe.result) = 1

\* The call is on a way and direction whose change tagging has another
\* number of lanes than its turn tagging (no negative lanes tag involved).
ChangeLanesMismatch ==
    /\ probe.fn = "getManeuvers"
    /\ probe.called
    /\ probe.lanesTag >= 0
    /\ GivenChangeLanes # <<>>
    /\ Len(GivenChangeLanes) # Len(GivenTurnLanes)

\* C11 (as claimed): a call on a way and direction whose change tagging and
\* turn tagging differ in their number of lanes returns, and returns no
\* maneuver, whatever the tags hold.
C11_MismatchGivesNoManeuvers ==
    ChangeLanesMismatch => (~probe.threw /\ probe.result = <<>>)

\* C12 (as claimed): no way makes the extraction loop abort the batch; a way
\* whose change tagging holds an unrecognized value is extracted like any
\* other and the loop goes on to the next way or to the linking pass.
C12_ExtractionNeverAborts ==
    [][pc = "extract" => pc' \in {"extract", "link", "prepare"}]_vars

\* The link from maneuver m to maneuver n is admissible.
Admissible(m, n) ==
    LET way == waysById(ways)[maneuvers[m].fromWay]
        nextWay == waysById(ways)[maneuvers[n].fromWay]
    IN  /\ maneuvers[n].fromNode = maneuvers[m].viaNode
        /\ maneuvers[n].fromWay # maneuvers[m].fromWay
        /\ maneuvers[n].turn = maneuvers[m].turn
        /\ ~(way.tags["highway"] # <<"service">>
               /\ nextWay.tags["highway"] = <<"service">>)
        /\ ~(way.tags["highway"] \notin {<<"primary_link">>}
               /\ nextWay.tags["highway"] \in {<<"primary_link">>})
        /\ ~(maneuvers[m].protected = "true" /\ maneuvers[n].protected = "false")

\* C18: every link the linking pass has set goes to a maneuver that starts
\* at the via node of the linking maneuver, on another way, with the same
\* turn type, not from a road that is no service road onto a service road,
\* not from a road that is no link onto a link, and not from a protected
\* maneuver to an unprotected one.
C18_LinksAreAdmissible ==
    pc \in {"link", "prepare"}
    => \A m \in 1..Len(maneuvers) :
          maneuvers[m].next # 0 => Admissible(m, maneuvers[m].next)

\* C18 witness: the linking pass has ended with the protected maneuver of
\* the first way linked, past a maneuver at its via node that is unprotected
\* and one that is on a service road.
C18_Witness ==
    /\ pc = "prepare"
    /\ Len(maneuvers) >= 3
    /\ maneuvers[1].protected = "true"
    /\ maneuvers[1].next # 0
    /\ \E j \in 1..Len(maneuvers) :
          /\ maneuvers[j].fromNode = maneuvers[1].viaNode
          /\ maneuvers[j].turn = maneuvers[1].turn
          /\ maneuvers[j].protected = "false"
    /\ \E j \in 1..Len(maneuvers) :
          /\ maneuvers[j].fromNode = maneuvers[1].viaNode
          /\ waysById(ways)[maneuvers[j].fromWay].tags["highway"] = <<"service">>
          /\ waysById(ways)[maneuvers[1].fromWay].tags["highway"] # <<"service">>

\* The pair a change value stands for, as claimed: any value that is not
\* one of the six stands for an unrestricted lane.
ClaimedChangePair(word) ==
    CASE word = "yes" -> <<"true", "true">>
      [] word = "no" -> <<"false", "false">>
      [] word \in {"not_left", "only_right"} -> <<"false", "true">>
      [] word \in {"not_right", "only_left"} -> <<"true", "false">>
      [] OTHER -> <<"true", "true">>

\* C13 (as claimed): decoding a change tag gives, lane by lane, the pair its
\* value stands for ((true, true) for any unknown value), but for the left
\* component of the first lane and the right component of the last lane,
\* which are unknown.
C13_ChangePairsAsClaimed ==
    (probe.fn = "decodeChange" /\ probe.called)
    => /\ ~probe.threw
       /\ Len(probe.result) = Len(probe.changeLanes)
       /\ \A i \in 1..Len(probe.changeLanes) :
             probe.result[i] =
                 <<IF i = 1 THEN "undefined"
                   ELSE ClaimedChangePair(probe.changeLanes[i])[1],
                   IF i = Len(probe.changeLanes) THEN "undefined"
                   ELSE ClaimedChangePair(probe.changeLanes[i])[2]>>

\* C14: when the linking pass has ended, a second pass over the same pool,
\* next and isConnection set as the first pass left them, decides for every
\* maneuver on the successor it already has (or on none when it has none),
\* marks as connections the maneuvers already marked and no other, and so
\* leaves the pool as it is.
C14_RelinkingAssignsTheSame ==
    pc = "prepare"
    => LET byId == waysById(ways)
       IN  /\ \A m \in 1..Len(maneuvers) :
                 ChosenNext(RemainingCandidates(byId, maneuvers, m))
                     = maneuvers[m].next
           /\ \A j \in 1..Len(maneuvers) :
                 maneuvers[j].isConnection
                     <=> \E m \in 1..Len(maneuvers) : maneuvers[m].next = j
           /\ LinkedFrom(byId, maneuvers, 1) = maneuvers

\* C14 witness: the linking pass has ended with two maneuvers linked to the
\* same successor.
C14_Witness ==
    /\ pc = "prepare"
    /\ \E m \in 1..Len(maneuvers) : \E n \in 1..Len(maneuvers) :
          /\ m # n
          /\ maneuvers[m].next # 0
          /\ maneuvers[m].next = maneuvers[n].next

\* The speed tag a maneuver takes its max speed from: the advisory speed
\* limit if tagged, else the legal one.
TaggedSpeed == IF probe.advisory.kind # "absent" THEN probe.advisory ELSE probe.legal

\* C15 (as claimed): the max speed of the maneuver is in meters per second:
\* N * 1609.344 / 3600 (= N * 1397 / 3125) for "N mph", N * 1000 / 3600
\* (= N * 5 / 18) for a bare number N, and absent for an absent tag.
C15_MaxSpeedInMetersPerSecond ==
    (probe.fn = "getManeuvers" /\ probe.called /\ "legal" \in DOMAIN probe)
    => /\ ~probe.threw
       /\ Len(probe.result) = 1
       /\ LET maxSpeed == probe.result[1].maxSpeed
          IN  CASE TaggedSpeed.kind = "mph" ->
                      maxSpeed[1] * 3125 = TaggedSpeed.n * 1397 * maxSpeed[2]
                [] TaggedSpeed.kind = "bare" ->
                      maxSpeed[1] * 18 = TaggedSpeed.n * 5 * maxSpeed[2]
                [] TaggedSpeed.kind = "absent" -> maxSpeed = NoSpeed
                [] OTHER -> TRUE

\* The callback has run on the way of the call.
WayCallbackDone == probe.fn = "wayCallback" /\ probe.called /\ ~probe.threw

\* C16 (as claimed): on a way that is not skipped as a turn channel the
\* extractor is called for the forward direction exactly when oneway is not
\* "-1" and for the backward direction exactly when oneway is not "yes", so
\* for both on a way without oneway tag or with oneway=no, which are the
\* ways whose lane count getLaneCount halves; a way with turn lanes gets
\* maneuvers for exactly these directions.
C16_DirectionsAsLegal ==
    (WayCallbackDone /\ ~probe.skipped)
    => LET oneway == TagOf(probe.way, "oneway")
           made(p) == \E i \in 1..Len(probe.result) : probe.result[i].progression = p
       IN  /\ probe.forward <=> oneway # <<"-1">>
           /\ probe.backward <=> oneway # <<"yes">>
           /\ (probe.forward /\ probe.backward)
                 <=> (oneway # <<"yes">> /\ oneway # <<"-1">>)
           /\ (TagOf(probe.way, "turn:lanes") # Undefined)
                 => /\ made(1) <=> oneway # <<"-1">>
                    /\ made(-1) <=> oneway # <<"yes">>

\* C17 (as claimed): the way is skipped, and so not passed to the
\* extractor, exactly when it has lanes=1 or a turn tag, is tagged
\* oneway=yes or oneway=-1, and its highway tag is service or holds _link.
C17_TurnChannelSkip ==
    WayCallbackDone
    => LET highway == TagOf(probe.way, "highway")
           oneway == TagOf(probe.way, "oneway")
       IN  probe.skipped
               <=> /\ \/ TagOf(probe.way, "lanes") = <<"1">>
                      \/ TagOf(probe.way, "turn") # Undefined
                   /\ oneway = <<"yes">> \/ oneway = <<"-1">>
                   /\ highway = <<"service">> \/ highway = <<"primary_link">>

\* The bearing with which the way of a maneuver is left at the via node and
\* entered at the start node, in the direction of travel of the maneuver.
ExitBearing(m) ==
    LET line == waysById(ways)[maneuvers[m].fromWay].line
    IN  IF maneuvers[m].progression > 0 THEN line.tail ELSE ReverseBearing(line.head)

EntryBearing(m) ==
    LET line == waysById(ways)[maneuvers[m].fromWay].line
    IN  IF maneuvers[m].progression > 0 THEN line.head ELSE ReverseBearing(line.tail)

\* C19 (as claimed): the maneuver of the second way, the only candidate of
\* the maneuver of the first way, comes through the bearing filter and is
\* linked if and only if its bearing less the bearing of the first, taken
\* modulo 360 into (-180, 180], is at most 30 degrees either way.
C19_KeptWithinThirtyDegrees ==
    (pc = "prepare" /\ Len(maneuvers) = 2 /\ Len(ways) = 2)
    => LET byId == waysById(ways)
           delta == NormalizeBearing(ConnectedBearing(byId, maneuvers, 1, 2)
                                         - ManeuverBearing(byId, maneuvers, 1))
       IN  maneuvers[1].next = 2 <=> Abs(delta) <= 30

\* C20 (as claimed): during the linking pass the bearing of every maneuver
\* is that with which its way is left at the via node, for a forward and
\* for a backward progression, and the bearing of each of its candidates
\* is that with which the candidate's way is entered at its start node.
C20_BearingsAtTheSharedNode ==
    pc = "link"
    => LET byId == waysById(ways)
       IN  \A m \in 1..Len(maneuvers) :
              /\ ManeuverBearing(byId, maneuvers, m) = ExitBearing(m)
              /\ \A k \in 1..Len(ConnectedBySharedNode(maneuvers, m)) :
                    LET c == ConnectedBySharedNode(maneuvers, m)[k]
                    IN  ConnectedBearing(byId, maneuvers, m, c) = EntryBearing(c)

\* A warning of the given kind has been written while a maneuver of the
\* chain took in its successor.
WarnedAt(kind, chain) ==
    \E w \in 1..Len(warned) :
        /\ warned[w].kind = kind
        /\ \E i \in 1..Len(chain) : warned[w].at = chain[i]

\* C22 (as claimed): when the flatten stage has ended, every root whose
\* chain has a segment with more lanes than the segment after it has had
\* the lane-drop warning written for a maneuver of its chain, also when a
\* later segment is wider again.
C22_LaneDropIsWarned ==
    pc \in {"output", "done"}
    => LET pool == Linked
       IN  \A k \in 1..Len(roots) :
              LET chain == ChainOf(pool, roots[k])
              IN  (/\ Acyclic(pool, roots[k])
                   /\ \E i \in 1..(Len(chain) - 1) :
                         pool[chain[i]].lanes > pool[chain[i + 1]].lanes)
                  => WarnedAt("laneDrop", chain)

\* C21 (as claimed): when the linking pass comes to a maneuver that has
\* more than one candidate left after the same-class step, one of them at
\* least on a way with the name tag of the maneuver's way, the candidates
\* it ends with are those on ways with that name tag, whatever the lane
\* counts of the maneuvers.
C21_NarrowedToTheSameName ==
    (pc = "link" /\ cursor <= Len(maneuvers))
    => LET byId == waysById(ways)
           name == TagOf(byId[maneuvers[cursor].fromWay], "name")
           cands == SameClassNarrowing(byId, maneuvers, cursor,
                        FilteredCandidates(byId, maneuvers, cursor))
           sameName == SelectSeq(cands, LAMBDA c :
                           TagOf(byId[maneuvers[c].fromWay], "name") = name)
       IN  (Len(cands) > 1 /\ Len(sameName) > 0)
           => RemainingCandidates(byId, maneuvers, cursor) = sameName

\* C23 (as claimed): when the flatten stage has ended, every root whose
\* chain has a protected segment and, somewhere after it, an unprotected
\* one has had the protection-drop warning written for a maneuver of its
\* chain.
C23_ProtectionDropIsWarned ==
    pc \in {"output", "done"}
    => LET pool == Linked
       IN  \A k \in 1..Len(roots) :
              LET chain == ChainOf(pool, roots[k])
              IN  (/\ Acyclic(pool, roots[k])
                   /\ \E i \in 1..Len(chain) : \E j \in 1..Len(chain) :
                         /\ i < j
                         /\ pool[chain[i]].protected = "true"
                         /\ pool[chain[j]].protected = "false")
                  => WarnedAt("protectionDrop", chain)

\* The places of a chain, from the second on, held by a protected segment
\* that comes after one that is not protected.
ProtectionBegins(pool, chain) ==
    {i \in 2..Len(chain) : /\ pool[chain[i]].protected = "true"
                           /\ pool[chain[i - 1]].protected # "true"}

\* C24: when the flatten stage has ended, a root has a protection-begin
\* node if and only if some segment of its chain, from the second on, is
\* protected and the segment before it is not; the node is then the start
\* node of the first such segment.
C24_ProtectionBeginNode ==
    pc \in {"output", "done"}
    => LET pool == Linked
       IN  \A k \in 1..Len(roots) :
              LET chain == ChainOf(pool, roots[k])
                  begins == ProtectionBegins(pool, chain)
                  node == maneuvers[roots[k]].protectionNode
              IN  Acyclic(pool, roots[k])
                  => IF begins = {} THEN node = 0
                     ELSE node = pool[chain[CHOOSE i \in begins :
                                         \A j \in begins : i <= j]].fromNode

\* C24 witness: a root that is itself protected has taken in a segment of
\* unknown protection and a protected one after it, and has the start node
\* of that third segment for its protection-begin node.
C24_Witness ==
    /\ pc = "done"
    /\ \E k \in 1..Len(roots) :
          LET chain == ChainOf(Linked, roots[k])
          IN  /\ Len(chain) >= 3
              /\ Linked[chain[1]].protected = "true"
              /\ Linked[chain[2]].protected = "undefined"
              /\ Linked[chain[3]].protected = "true"
              /\ maneuvers[roots[k]].protectionNode = Linked[chain[3]].fromNode

\* The call has turn tagging and change tagging of as many lanes, every
\* change value one the decoder knows, and has returned.
DecodesChangeLanes ==
    /\ DecodesTurnLanes
    /\ probe.lanesTag >= 0
    /\ GivenChangeLanes # <<>>
    /\ \A i \in 1..Len(GivenChangeLanes) : GivenChangeLanes[i] # "bogus"

\* Whether a change to the left and to the right of lane i is allowed, as
\* the change tagging of the call says; unknown at the two edges of the
\* road.
ChangeLeftOf(i) ==
    IF i = 1 THEN "undefined" ELSE ClaimedChangePair(GivenChangeLanes[i])[1]

ChangeRightOf(i) ==
    IF i = Len(GivenChangeLanes) THEN "undefined"
    ELSE ClaimedChangePair(GivenChangeLanes[i])[2]

OnlyTurn(turn) ==
    \A i \in 1..Len(GivenTurnLanes) :
        /\ Len(GivenTurnLanes[i]) > 0
        /\ \A j \in 1..Len(GivenTurnLanes[i]) : GivenTurnLanes[i][j] \in WordsOf(turn)

\* C26 (as claimed): with recognized change tagging the protection of a
\* maneuver is unknown if and only if its turn type is the only turn the way
\* allows in the direction; without change tagging the protection of every
\* maneuver is unknown.
C26_UnknownOnlyForTheOnlyTurn ==
    /\ DecodesChangeLanes
         => \A r \in 1..Len(probe.result) :
               probe.result[r].protected = "undefined"
                   <=> OnlyTurn(probe.result[r].turn)
    /\ (DecodesTurnLanes /\ probe.lanesTag >= 0 /\ GivenChangeLanes = <<>>)
         => \A r \in 1..Len(probe.result) : probe.result[r].protected = "undefined"

\* C27 (as claimed): every call of flattenManeuver the flatten stage makes
\* returns, whatever the next links of the pool are: the stage goes on to
\* the following root or to the output and never ends in a stack overflow.
C27_FlattenReturns ==
    [][pc = "flatten"
        => /\ ~flattenManeuver(maneuvers, warned, roots[cursor], 1).overflow
           /\ pc' \in {"flatten", "output"}]_vars

\* The least common multiple of the denominators of a list of speeds.
RECURSIVE CommonDenominator(_)
CommonDenominator(speeds) ==
    IF Len(speeds) = 0 THEN 1
    ELSE LET rest == CommonDenominator(Tail(speeds))
         IN  (Head(speeds)[2] \div Gcd(Head(speeds)[2], rest)) * rest

\* The average of the speeds weighted by the lengths: the sum of length
\* times speed over the sum of the lengths, in lowest terms.
WeightedAverage(lengths, speeds) ==
    LET unit == CommonDenominator(speeds)
    IN  Fraction(SumOf([i \in 1..Len(speeds) |->
                     lengths[i] * speeds[i][1] * (unit \div speeds[i][2])]),
                 unit * SumOf(lengths))

\* The lengths and the speeds of the segments of a chain of the pool.
SegmentLengths(pool, chain) ==
    [i \in 1..Len(chain) |-> waysById(ways)[pool[chain[i]].fromWay].line.len]

SegmentSpeeds(pool, chain) ==
    [i \in 1..Len(chain) |-> pool[chain[i]].maxSpeed]

\* C28: when the flatten stage has ended, the max speed of a root is the
\* average of the max speeds of the segments of its chain weighted by their
\* lengths if every segment has a max speed, the max speed of the one
\* segment that has one if only one has, and absent if none has; the entry
\* written for the root holds that value.
C28_MaxSpeedIsWeightedAverage ==
    pc \in {"output", "done"}
    => LET pool == Linked
       IN  \A k \in 1..Len(roots) :
              LET chain == ChainOf(pool, roots[k])
                  speeds == SegmentSpeeds(pool, chain)
                  defined == {i \in 1..Len(chain) : speeds[i] # NoSpeed}
                  maxSpeed == maneuvers[roots[k]].maxSpeed
              IN  Acyclic(pool, roots[k])
                  => /\ Cardinality(defined) = Len(chain)
                          => maxSpeed = WeightedAverage(SegmentLengths(pool, chain), speeds)
                     /\ Cardinality(defined) = 1
                          => maxSpeed = speeds[CHOOSE i \in defined : TRUE]
                     /\ defined = {} => maxSpeed = NoSpeed
                     /\ k <= Len(output) => output[k].maxSpeed = maxSpeed

\* C28 witness: the entry has been written of a root of three segments of
\* different lengths, each with a max speed and not all with the same,
\* and it holds their weighted average.
C28_Witness ==
    /\ pc = "done"
    /\ \E k \in 1..Len(roots) :
          LET chain == ChainOf(Linked, roots[k])
              speeds == SegmentSpeeds(Linked, chain)
          IN  /\ Len(chain) >= 3
              /\ \A i \in 1..Len(chain) : speeds[i] # NoSpeed
              /\ speeds[1] # speeds[2]
              /\ speeds[2] = speeds[3]
              /\ output[k].maxSpeed =
                    WeightedAverage(SegmentLengths(Linked, chain), speeds)

\* The roots whose record holds the way and the progression of maneuver j
\* of the pool, for the turn of j.
RecordsHolding(pool, j) ==
    {k \in 1..Len(roots) :
        LET m == maneuvers[roots[k]]
        IN  /\ m.turn = pool[j].turn
            /\ \E i \in 1..Len(m.fromWays) :
                  /\ m.fromWays[i] = pool[j].fromWay
                  /\ i <= Len(m.progressions)
                  /\ m.progressions[i] = pool[j].progression}

\* C29 (as claimed): when the batch has ended, the way and the progression
\* of every maneuver the extractor made are held by the record of exactly
\* one root: no maneuver is lost and none is merged into two records.
C29_EachManeuverInOneRecord ==
    pc = "done"
    => LET pool == Linked
       IN  \A j \in 1..Len(pool) : Cardinality(RecordsHolding(pool, j)) = 1

\* The members of a list.
MembersOf(list) == {list[i] : i \in 1..Len(list)}

\* C30: when the linking pass comes to a maneuver, the same-class step
\* and the same-name step each give candidates out of those they were
\* given, and if any candidate has passed the filters before them then
\* one at least is left after them and the maneuver gets a next.
C30_NarrowingKeepsACandidate ==
    (pc = "link" /\ cursor <= Len(maneuvers))
    => LET byId == waysById(ways)
           filtered == FilteredCandidates(byId, maneuvers, cursor)
           sameClass == SameClassNarrowing(byId, maneuvers, cursor, filtered)
           sameName == SameNameNarrowing(byId, maneuvers, cursor, sameClass)
       IN  /\ MembersOf(sameClass) \subseteq MembersOf(filtered)
           /\ MembersOf(sameName) \subseteq MembersOf(sameClass)
           /\ Len(filtered) > 0
                => /\ Len(sameClass) > 0
                   /\ Len(sameName) > 0
                   /\ LinkOne(byId, maneuvers, cursor)[cursor].next # 0

\* C30 witness: the linking pass has dealt with a maneuver that had two
\* candidates after the filters, none of them on a way of its road class;
\* the same-class step kept both, the same-name step kept one, and that
\* one is its next.
C30_Witness ==
    /\ pc = "link"
    /\ \E m \in 1..(cursor - 1) :
          LET byId == waysById(ways)
              filtered == FilteredCandidates(byId, maneuvers, m)
              sameClass == SameClassNarrowing(byId, maneuvers, m, filtered)
              sameName == SameNameNarrowing(byId, maneuvers, m, sameClass)
          IN  /\ Len(filtered) = 2
              /\ \A c \in MembersOf(filtered) :
                    TagOf(byId[maneuvers[c].fromWay], "highway")
                        # TagOf(byId[maneuvers[m].fromWay], "highway")
              /\ sameClass = filtered
              /\ Len(sameName) = 1
              /\ maneuvers[m].next = sameName[1]

====
